---- MODULE Spec2Model ----
(***************************************************************************)
(* A model of the receipt scanner of src/App.tsx: the selection of a batch *)
(* of documents (handleFileChange), the batch run over it                  *)
(* (processReceipts, callScannerGeminiAPI) and the spreadsheet export      *)
(* (downloadScannerExcel).                                                 *)
(*                                                                         *)
(* Conventions.                                                            *)
(*  - A JavaScript string is a sequence of one-character strings, so that  *)
(*    trim, concatenation, split and pattern matching are computed, not    *)
(*    assumed.  str("R1") is written <<"R","1">>.                          *)
(*  - A value that may be undefined is None (<<>>) or Some(v) (<<v>>).     *)
(*  - A Date is [valid, y, m, d] with m 0-based as getMonth() gives it.    *)
(*    Date-only ISO strings are parsed as UTC midnight and read back in    *)
(*    local time; the model takes a local zone at or ahead of UTC (the     *)
(*    tool serves Lagos, UTC+1), where both name the same calendar day,    *)
(*    and an English locale for toLocaleString.                            *)
(*  - getTime() is counted in days, not milliseconds.                      *)
(***************************************************************************)
EXTENDS Integers, Sequences, FiniteSets, TLC

VARIABLES
    ai,                \* useState ai: TRUE when a GoogleGenAI client was created
    selectedFiles,     \* useState selectedFiles: the selected batch
    scannerIsLoading,  \* useState scannerIsLoading: a run of processReceipts is in flight
    scannerResults,    \* useState scannerResults: the exposed ledger
    scannerMessages,   \* useState scannerMessages: the diagnostics
    showDownloadModal, \* useState showDownloadModal
    files,             \* processReceipts: the selectedFiles its closure captured
    idx,               \* processReceipts: documents of `files` the loop has finished
    uniqueKeys,        \* processReceipts: const uniqueKeys
    results,           \* processReceipts: const results
    sent,              \* the documents the run in flight handed to the extraction service
    exportOutcome,     \* what the last downloadScannerExcel call on this ledger did
    artifact           \* the last workbook XLSX.writeFile was given for this ledger

vars == <<ai, selectedFiles, scannerIsLoading, scannerResults, scannerMessages,
          showDownloadModal, files, idx, uniqueKeys, results, sent,
          exportOutcome, artifact>>

-----------------------------------------------------------------------------
(* Bounds of the model.                                                    *)

\* documents in one selection, specification Spec
MaxFiles == 2
\* documents in one selection, specification SpecRun
MaxBatch == 3
\* documents in one selection, specification SpecExport
MaxLedger == 3
\* documents in one selection, specification SpecClassify
MaxRows == 2

-----------------------------------------------------------------------------
(* Optional values and strings.                                            *)

None == <<>>
Some(v) == <<v>>
IsSome(o) == Len(o) = 1
Get(o) == o[1]

\* JavaScript truthiness of an optional string: undefined and "" are falsy.
Truthy(o) == IsSome(o) /\ Get(o) # <<>>

DigitChars == <<"0", "1", "2", "3", "4", "5", "6", "7", "8", "9">>
IsDigit(c) == \E i \in 1..10 : DigitChars[i] = c
DigitVal(c) == (CHOOSE i \in 1..10 : DigitChars[i] = c) - 1

RECURSIVE NatToString(_)
NatToString(n) ==
    IF n < 10 THEN <<DigitChars[n + 1]>>
    ELSE NatToString(n \div 10) \o <<DigitChars[(n % 10) + 1]>>

\* Number.prototype.toString for the integers, as a template literal applies it.
NumberToString(n) ==
    IF n < 0 THEN <<"-">> \o NatToString(0 - n) ELSE NatToString(n)

RECURSIVE DigitsToNat(_)
DigitsToNat(s) ==
    IF s = <<>> THEN 0
    ELSE 10 * DigitsToNat(SubSeq(s, 1, Len(s) - 1)) + DigitVal(s[Len(s)])

AllDigits(s) == \A i \in 1..Len(s) : IsDigit(s[i])

WhiteSpace == {" ", "\t", "\n"}

RECURSIVE TrimStart(_)
TrimStart(s) ==
    IF s # <<>> /\ s[1] \in WhiteSpace THEN TrimStart(Tail(s)) ELSE s

RECURSIVE TrimEnd(_)
TrimEnd(s) ==
    IF s # <<>> /\ s[Len(s)] \in WhiteSpace
    THEN TrimEnd(SubSeq(s, 1, Len(s) - 1)) ELSE s

\* String.prototype.trim
Trim(s) == TrimEnd(TrimStart(s))

\* String.prototype.padStart(2, '0')
PadStart2(s) == IF Len(s) < 2 THEN <<"0">> \o s ELSE s

\* String.prototype.slice(-2)
SliceLast2(s) == IF Len(s) <= 2 THEN s ELSE SubSeq(s, Len(s) - 1, Len(s))

-----------------------------------------------------------------------------
(* Dates.                                                                  *)

IsLeap(y) == (y % 4 = 0 /\ y % 100 # 0) \/ y % 400 = 0

\* days of month m0 (0-based) of year y
DaysIn(y, m0) ==
    IF m0 = 1 THEN (IF IsLeap(y) THEN 29 ELSE 28)
    ELSE IF m0 \in {3, 5, 8, 10} THEN 30 ELSE 31

InvalidDate == [valid |-> FALSE, y |-> 0, m |-> 0, d |-> 0]

\* new Date(s) for the strings of the model: a date-only ISO string
\* "YYYY-MM-DD" naming a day of the calendar gives that day; any other text
\* goes to the engine's legacy parser, which rejects the day-first strings
\* ("21/01/2025") and the garbage the model feeds it.
NewDate(s) ==
    IF /\ Len(s) = 10
       /\ s[5] = "-"
       /\ s[8] = "-"
       /\ AllDigits(SubSeq(s, 1, 4))
       /\ AllDigits(SubSeq(s, 6, 7))
       /\ AllDigits(SubSeq(s, 9, 10))
    THEN LET y == DigitsToNat(SubSeq(s, 1, 4))
             m == DigitsToNat(SubSeq(s, 6, 7))
             d == DigitsToNat(SubSeq(s, 9, 10))
         IN  IF m \in 1..12 /\ d \in 1..DaysIn(y, m - 1)
             THEN [valid |-> TRUE, y |-> y, m |-> m - 1, d |-> d]
             ELSE InvalidDate
    ELSE InvalidDate

\* Date.prototype.setMonth(m0) for m0 in -1..11: the month is set and the
\* day of the month kept; a month before January is taken from the year
\* before, and a day the month does not have runs over into the next month.
SetMonth(date, m0) ==
    IF ~date.valid THEN InvalidDate
    ELSE LET y1 == IF m0 < 0 THEN date.y - 1 ELSE date.y
             m1 == IF m0 < 0 THEN m0 + 12 ELSE m0
         IN  IF date.d <= DaysIn(y1, m1)
             THEN [valid |-> TRUE, y |-> y1, m |-> m1, d |-> date.d]
             ELSE [valid |-> TRUE,
                   y |-> IF m1 = 11 THEN y1 + 1 ELSE y1,
                   m |-> (m1 + 1) % 12,
                   d |-> date.d - DaysIn(y1, m1)]

RECURSIVE DaysBeforeMonth(_, _)
DaysBeforeMonth(y, m0) ==
    IF m0 = 0 THEN 0 ELSE DaysBeforeMonth(y, m0 - 1) + DaysIn(y, m0 - 1)

\* leap days of the years before y
LeapsBefore(y) == ((y - 1) \div 4) - ((y - 1) \div 100) + ((y - 1) \div 400)

\* Date.prototype.getTime(), in days; None is NaN.
GetTime(date) ==
    IF date.valid
    THEN Some(365 * date.y + LeapsBefore(date.y)
              + DaysBeforeMonth(date.y, date.m) + date.d)
    ELSE None

MonthShort ==
    << <<"J","a","n">>, <<"F","e","b">>, <<"M","a","r">>, <<"A","p","r">>,
       <<"M","a","y">>, <<"J","u","n">>, <<"J","u","l">>, <<"A","u","g">>,
       <<"S","e","p">>, <<"O","c","t">>, <<"N","o","v">>, <<"D","e","c">> >>

\* date.toLocaleString('default', { month: 'short' })
ToLocaleMonthShort(date) ==
    IF date.valid THEN MonthShort[date.m + 1]
    ELSE <<"I","n","v","a","l","i","d"," ","D","a","t","e">>

\* String(n) of getFullYear(), getMonth() + 1, getDate(): "NaN" for an invalid date
NaNString == <<"N","a","N">>
FullYearString(date) == IF date.valid THEN NatToString(date.y) ELSE NaNString
MonthString(date) == IF date.valid THEN NatToString(date.m + 1) ELSE NaNString
DayString(date) == IF date.valid THEN NatToString(date.d) ELSE NaNString

-----------------------------------------------------------------------------
(* Documents and the extraction service.                                   *)

\* const maxSize = 19 * 1024 * 1024
maxSize == 19 * 1024 * 1024

\* ['image/png', 'image/jpeg', 'image/webp', 'application/pdf']
AcceptedTypes == {"image/png", "image/jpeg", "image/webp", "application/pdf"}

\* the size check with >= for >
TooLargeAtLimit(file) == file.size >= maxSize

\* file.size > maxSize
TooLarge(file) == file.size > maxSize

\* !AcceptedTypes.includes(mimeType)
Unsupported(file) == file.type \notin AcceptedTypes

\* What one call of the service comes back with: ok = FALSE is a call that
\* throws (transport, quota, a body JSON.parse rejects, fileToBase64
\* rejecting); otherwise data is the parsed object, any of whose string
\* fields may be missing.
Response(ok, company, date, period, receipt, tax, amount) ==
    [ok |-> ok,
     data |-> [companyName |-> company, paymentDate |-> date,
               paymentPeriod |-> period, receiptNumber |-> receipt,
               taxType |-> tax, amount |-> amount]]

\* new Date(row.paymentDate): new Date(undefined) is an invalid date
DateOf(paymentDate) ==
    IF IsSome(paymentDate) THEN NewDate(Get(paymentDate)) ELSE InvalidDate

\* if (!data.paymentPeriod && data.paymentDate) { ... }: the period the
\* normalizer leaves in data.paymentPeriod
InferredPeriod(data) ==
    IF ~Truthy(data.paymentPeriod) /\ Truthy(data.paymentDate)
    THEN LET parsed == DateOf(data.paymentDate)
             date == SetMonth(parsed, parsed.m - 1)
         IN  Some(ToLocaleMonthShort(date) \o <<"-">>
                  \o SliceLast2(FullYearString(date)))
    ELSE data.paymentPeriod

\* if (data.paymentDate) { data.paymentDateDisplay = ... }
DateDisplay(data) ==
    IF Truthy(data.paymentDate)
    THEN LET date == DateOf(data.paymentDate)
         IN  Some(PadStart2(DayString(date)) \o <<"/">>
                  \o PadStart2(MonthString(date)) \o <<"/">>
                  \o FullYearString(date))
    ELSE None

\* callScannerGeminiAPI, from JSON.parse on: the ScannerResult it returns
\* for a response that parsed
callScannerGeminiAPI(data) ==
    [companyName |-> data.companyName,
     paymentDate |-> data.paymentDate,
     paymentDateDisplay |-> DateDisplay(data),
     paymentPeriod |-> InferredPeriod(data),
     receiptNumber |-> data.receiptNumber,
     taxType |-> data.taxType,
     amount |-> data.amount]

-----------------------------------------------------------------------------
(* processReceipts: one iteration of the loop.                             *)

Message(type, text, name) == [type |-> type, text |-> text, file |-> name]

\* the check as if (result) alone
HasCompanyUnchecked(result) == TRUE

\* if (result && result.companyName)
HasCompany(result) == Truthy(result.companyName)

\* the key without the trim
UniqueKeyUntrimmed(result) ==
    Get(result.receiptNumber) \o <<"-">> \o NumberToString(result.amount)

\* `${result.receiptNumber.trim()}-${result.amount}`
UniqueKey(result) ==
    Trim(Get(result.receiptNumber)) \o <<"-">> \o NumberToString(result.amount)

\* uniqueKeys.has(uniqueKey)
IsDuplicate(keys, result) == UniqueKey(result) \in keys

\* a catch that swallows the error
RejectedSilently(file, text, st) == st

\* catch (error) { setScannerMessages(prev => [...prev, { ..., type: 'error' }]) }
Rejected(file, text, st) ==
    [st EXCEPT !.scannerMessages = Append(@, Message("error", text, file.name))]

\* the branch of a key already in uniqueKeys
Skipped(file, st) ==
    [st EXCEPT !.scannerMessages =
        Append(@, Message("warning", "Duplicate Receipt skipped", file.name))]

\* uniqueKeys.add(uniqueKey); results.push(result); and the success message
Admitted(file, result, st) ==
    [st EXCEPT !.uniqueKeys = @ \cup {UniqueKey(result)},
               !.results = Append(@, result),
               !.scannerMessages =
                   Append(@, Message("success", "Successfully processed", file.name))]

\* The body of the try block for a document that passed the size and type
\* checks: the run's [uniqueKeys, results, scannerMessages, sent] after it.
\* result.receiptNumber.trim() throws a TypeError when receiptNumber is
\* missing, which the catch turns into an error message like any other.
Extract(file, response, st) ==
    IF ~response.ok
    THEN Rejected(file, "Failed to process file: service error", st)
    ELSE LET result == callScannerGeminiAPI(response.data)
         IN  IF ~HasCompany(result)
             THEN Rejected(file, "Failed to process file: AI did not return valid data.", st)
             ELSE IF ~IsSome(result.receiptNumber)
             THEN Rejected(file, "Failed to process file: TypeError", st)
             ELSE IF IsDuplicate(st.uniqueKeys, result)
             THEN Skipped(file, st)
             ELSE Admitted(file, result, st)

\* One iteration of for (const file of selectedFiles).
Iteration(file, response, st) ==
    IF TooLarge(file)
    THEN [st EXCEPT !.scannerMessages =
             Append(@, Message("warning", "File skipped (too large)", file.name))]
    ELSE IF Unsupported(file)
    THEN [st EXCEPT !.scannerMessages =
             Append(@, Message("warning", "Skipped: unsupported type", file.name))]
    ELSE Extract(file, response, [st EXCEPT !.sent = Append(@, file)])

-----------------------------------------------------------------------------
(* results.sort((a, b) => new Date(a.paymentDate).getTime()                *)
(*                        - new Date(b.paymentDate).getTime())             *)

\* the comparator's value; None is NaN
CompareFn(a, b) ==
    LET ta == GetTime(DateOf(a.paymentDate))
        tb == GetTime(DateOf(b.paymentDate))
    IN  IF IsSome(ta) /\ IsSome(tb) THEN Some(Get(ta) - Get(tb)) ELSE None

\* SortCompare of ECMAScript: a NaN from the comparator counts as +0
SortCompare(a, b) ==
    LET v == CompareFn(a, b) IN IF IsSome(v) THEN Get(v) ELSE 0

\* ECMAScript's "consistent comparator" for the elements of s
ConsistentComparator(s) ==
    \A i, j, k \in 1..Len(s) :
        /\ (SortCompare(s[i], s[j]) = 0 /\ SortCompare(s[j], s[k]) = 0)
              => SortCompare(s[i], s[k]) = 0
        /\ (SortCompare(s[i], s[j]) < 0 /\ SortCompare(s[j], s[k]) < 0)
              => SortCompare(s[i], s[k]) < 0
        /\ (SortCompare(s[i], s[j]) > 0 /\ SortCompare(s[j], s[k]) > 0)
              => SortCompare(s[i], s[k]) > 0

\* x put into the sorted s behind every element that does not come after it
InsertSorted(s, x) ==
    LET after == {i \in 1..Len(s) : SortCompare(s[i], x) > 0}
        at == IF after = {} THEN Len(s) + 1
              ELSE CHOOSE i \in after : \A j \in after : i <= j
    IN  SubSeq(s, 1, at - 1) \o <<x>> \o SubSeq(s, at, Len(s))

RECURSIVE StableSort(_)
StableSort(s) ==
    IF s = <<>> THEN <<>>
    ELSE InsertSorted(StableSort(SubSeq(s, 1, Len(s) - 1)), s[Len(s)])

AllOrders(s) ==
    {[i \in 1..Len(s) |-> s[p[i]]] : p \in Permutations(1..Len(s))}

\* Array.prototype.sort: stable, and ascending by the comparator when that
\* is consistent; with an inconsistent comparator (a NaN between two
\* different dates) the order is implementation-defined, so any order of
\* the elements is an outcome.
ArraySort(s) ==
    IF ConsistentComparator(s) THEN {StableSort(s)} ELSE AllOrders(s)

-----------------------------------------------------------------------------
(* The inputs of the model.                                                *)

Doc(i, size, type) == [name |-> <<"f">> \o NatToString(i), size |-> size, type |-> type]

\* "YYYY-MM-DD"
IsoDate(y, m, d) ==
    NatToString(y) \o <<"-">> \o PadStart2(NatToString(m)) \o <<"-">>
        \o PadStart2(NatToString(d))

Acme == <<"A","c","m","e">>
Beta == <<"B","e","t","a">>
Paye == <<"P","A","Y","E">>
Feb25 == <<"F","e","b","-","2","5">>
Dec24 == <<"D","e","c","-","2","4">>

\* a call that throws
Failure == Response(FALSE, None, None, None, None, None, 0)

\* the elements of s at the places in `places`, in the order of s
RECURSIVE Pick(_, _)
Pick(s, places) ==
    IF s = <<>> THEN <<>>
    ELSE LET front == Pick(SubSeq(s, 1, Len(s) - 1), places)
         IN  IF Len(s) \in places THEN Append(front, s[Len(s)]) ELSE front

\* the selections of at most n files out of a folder, in the folder's order
Selections(folder, n) ==
    {Pick(folder, places) :
        places \in {P \in SUBSET (1..Len(folder)) : Cardinality(P) <= n}}

\* Specification Spec: the folder the user selects from. One document is
\* exactly maxSize bytes long, one a byte longer, one of a type the scanner
\* refuses.
Documents ==
    <<Doc(1, maxSize, "image/png"), Doc(2, maxSize + 1, "application/pdf"),
      Doc(3, 1024, "image/gif"), Doc(4, 1024, "image/jpeg")>>

\* Specification Spec: what the service may answer.
Responses ==
    {Failure,
     Response(TRUE, Some(Acme), Some(IsoDate(2025, 3, 10)), Some(Feb25),
              Some(<<"R","1">>), Some(Paye), 100),
     Response(TRUE, Some(Beta), Some(IsoDate(2025, 1, 15)), Some(Dec24),
              Some(<<"R","2">>), Some(Paye), 100),
     Response(TRUE, None, Some(IsoDate(2025, 1, 15)), Some(Dec24),
              Some(<<"R","3">>), Some(Paye), 100)}

-----------------------------------------------------------------------------
(* More of String and Object, for the export.                              *)

LowerCase ==
    <<"a","b","c","d","e","f","g","h","i","j","k","l","m",
      "n","o","p","q","r","s","t","u","v","w","x","y","z">>
UpperCase ==
    <<"A","B","C","D","E","F","G","H","I","J","K","L","M",
      "N","O","P","Q","R","S","T","U","V","W","X","Y","Z">>
IsLower(c) == \E i \in 1..26 : LowerCase[i] = c
IsUpper(c) == \E i \in 1..26 : UpperCase[i] = c
UpperChar(c) ==
    IF IsLower(c) THEN UpperCase[CHOOSE i \in 1..26 : LowerCase[i] = c] ELSE c
LowerChar(c) ==
    IF IsUpper(c) THEN LowerCase[CHOOSE i \in 1..26 : UpperCase[i] = c] ELSE c

\* String.prototype.toUpperCase, toLowerCase
ToUpperCase(s) == [i \in 1..Len(s) |-> UpperChar(s[i])]
ToLowerCase(s) == [i \in 1..Len(s) |-> LowerChar(s[i])]

\* String.prototype.includes
Includes(s, sub) ==
    \E i \in 0..(Len(s) - Len(sub)) : SubSeq(s, i + 1, i + Len(sub)) = sub

\* String.prototype.split on the one-character separator sep
RECURSIVE Split(_, _)
Split(s, sep) ==
    LET hits == {i \in 1..Len(s) : s[i] = sep}
    IN  IF hits = {} THEN <<s>>
        ELSE LET at == CHOOSE i \in hits : \A j \in hits : i <= j
             IN  <<SubSeq(s, 1, at - 1)>> \o Split(SubSeq(s, at + 1, Len(s)), sep)

\* the elements of s, each at its first place only
RECURSIVE Distinct(_)
Distinct(s) ==
    IF s = <<>> THEN <<>>
    ELSE LET front == Distinct(SubSeq(s, 1, Len(s) - 1))
         IN  IF \E i \in 1..Len(front) : front[i] = s[Len(s)]
             THEN front ELSE Append(front, s[Len(s)])

\* A property key that is a canonical array index ("7", "2025", not "025").
\* Keys of ten digits and more are outside the model.
IsArrayIndex(key) ==
    /\ Len(key) \in 1..9
    /\ AllDigits(key)
    /\ (Len(key) = 1 \/ key[1] # "0")

\* the keys of s in ascending numeric order
RECURSIVE Ascending(_)
Ascending(s) ==
    IF s = <<>> THEN <<>>
    ELSE LET least == CHOOSE i \in 1..Len(s) :
                         \A j \in 1..Len(s) : DigitsToNat(s[i]) <= DigitsToNat(s[j])
         IN  <<s[least]>> \o
             Ascending(SubSeq(s, 1, least - 1) \o SubSeq(s, least + 1, Len(s)))

\* Object.keys / for-in of an object whose string keys were created in the
\* order s: the array indices first, ascending; then the rest as created.
OwnKeys(s) ==
    Ascending(SelectSeq(Distinct(s), IsArrayIndex))
        \o SelectSeq(Distinct(s), LAMBDA k : ~IsArrayIndex(k))

-----------------------------------------------------------------------------
(* downloadScannerExcel, upload template.                                  *)

LagosRevenuePayment == <<"L","A","G","O","S"," ","R","E","V","E","N","U","E"," ","P","A","Y","M","E","N","T">>
RevenuePayment == <<"R","E","V","E","N","U","E"," ","P","A","Y","M","E","N","T">>
RevenueReceipt == <<"R","E","V","E","N","U","E"," ","R","E","C","E","I","P","T">>

\* let displayTaxType = row.taxType; ... displayTaxType = "PAYE"
DisplayTaxType(taxType) ==
    LET upperTax == ToUpperCase(taxType)
    IN  IF \/ Includes(upperTax, LagosRevenuePayment)
           \/ upperTax = RevenuePayment
           \/ upperTax = RevenueReceipt
        THEN Paye ELSE taxType

\* const isPaye = displayTaxType.toUpperCase().includes("PAYE")
IsPaye(taxType) == Includes(ToUpperCase(DisplayTaxType(taxType)), Paye)

MonthLong ==
    << <<"J","A","N","U","A","R","Y">>, <<"F","E","B","R","U","A","R","Y">>, <<"M","A","R","C","H">>, <<"A","P","R","I","L">>,
       <<"M","A","Y">>, <<"J","U","N","E">>, <<"J","U","L","Y">>, <<"A","U","G","U","S","T">>,
       <<"S","E","P","T","E","M","B","E","R">>, <<"O","C","T","O","B","E","R">>, <<"N","O","V","E","M","B","E","R">>, <<"D","E","C","E","M","B","E","R">> >>

\* monthMap[key]: its keys are 'Jan'..'Dec' and 'jan'..'dec'
MonthMap(key) ==
    LET hits == {i \in 1..12 : MonthShort[i] = key \/ ToLowerCase(MonthShort[i]) = key}
    IN  IF hits = {} THEN None ELSE Some(MonthLong[CHOOSE i \in hits : TRUE])

\* the lookup without monthMap[m.toLowerCase()]
MonthNameAsWritten(m) ==
    IF IsSome(MonthMap(m)) THEN Get(MonthMap(m)) ELSE ToUpperCase(m)

\* monthMap[m] || monthMap[m.toLowerCase()] || m.toUpperCase()
MonthName(m) ==
    IF IsSome(MonthMap(m)) THEN Get(MonthMap(m))
    ELSE IF IsSome(MonthMap(ToLowerCase(m))) THEN Get(MonthMap(ToLowerCase(m)))
    ELSE ToUpperCase(m)

\* d.toLocaleString('default', { month: 'long' }).toUpperCase()
ToLocaleMonthLongUpper(date) ==
    IF date.valid THEN MonthLong[date.m + 1]
    ELSE <<"I","N","V","A","L","I","D"," ","D","A","T","E">>

\* periodVal of one row
PeriodVal(row) ==
    LET isPaye == IsPaye(Get(row.taxType))
        parts == Split(Get(row.paymentPeriod), "-")
    IN  IF Len(parts) = 2
        THEN LET m == parts[1]
                 y == IF Len(parts[2]) = 2 THEN <<"2","0">> \o parts[2] ELSE parts[2]
             IN  IF isPaye THEN MonthName(m) ELSE y
        ELSE LET d == DateOf(row.paymentDate)
             IN  IF isPaye THEN ToLocaleMonthLongUpper(d) ELSE FullYearString(d)

\* row.taxType.toUpperCase() and row.paymentPeriod.split throw a TypeError
\* on a row that has no taxType or no paymentPeriod
UploadThrows(ledger) ==
    \E i \in 1..Len(ledger) :
        ~IsSome(ledger[i].taxType) \/ ~IsSome(ledger[i].paymentPeriod)

\* one element of dataRows
UploadRow(row) ==
    [revenueItem |-> DisplayTaxType(Get(row.taxType)),
     dateOfPayment |-> DateOf(row.paymentDate),
     amountPaid |-> row.amount,
     receiptNumber |-> row.receiptNumber,
     periodOfPayment |-> PeriodVal(row)]

UploadFilename == <<"L","a","g","o","s","_","S","t","a","t","e","_","U","p","l","o","a","d","_","S","c","h","e","d","u","l","e",".","x","l","s","x">>

\* the workbooks the upload branch may write for the ledger: one sheet
\* "Upload" whose rows follow the header row
UploadWorkbooks(ledger) ==
    {[filename |-> UploadFilename,
      sheets |-> <<[name |-> <<"U","p","l","o","a","d">>,
                    title |-> <<>>,
                    rows |-> [i \in 1..Len(sorted) |-> UploadRow(sorted[i])],
                    total |-> 0]>>] : sorted \in ArraySort(ledger)}

-----------------------------------------------------------------------------
(* downloadScannerExcel, standard template.                                *)

Unknown == <<"U","n","k","n","o","w","n">>

\* the number of digits s ends with
RECURSIVE TrailingDigits(_)
TrailingDigits(s) ==
    IF s # <<>> /\ IsDigit(s[Len(s)])
    THEN 1 + TrailingDigits(SubSeq(s, 1, Len(s) - 1)) ELSE 0

\* getYearFromPeriod: period.match(/(\d{2,4})$/) is the leftmost match, the
\* last four digits of a longer run of digits at the end
getYearFromPeriod(period) ==
    IF ~Truthy(period) THEN Unknown
    ELSE LET p == Get(period)
             k == TrailingDigits(p)
             n == IF k > 4 THEN 4 ELSE k
             match == SubSeq(p, Len(p) - n + 1, Len(p))
         IN  IF k < 2 THEN Unknown
             ELSE IF Len(match) = 2 THEN <<"2","0">> \o match ELSE match

\* the keys of dataByYear as for (const year in dataByYear) meets them
YearKeys(ledger) ==
    OwnKeys([i \in 1..Len(ledger) |-> getYearFromPeriod(ledger[i].paymentPeriod)])

\* the bucket made anew for every row: only the last row of the year is left
BucketOfLastRow(ledger, year) ==
    LET rows == SelectSeq(ledger, LAMBDA row : getYearFromPeriod(row.paymentPeriod) = year)
    IN  IF rows = <<>> THEN <<>> ELSE <<rows[Len(rows)]>>

\* dataByYear[year], before it is sorted
Bucket(ledger, year) ==
    SelectSeq(ledger, LAMBDA row : getYearFromPeriod(row.paymentPeriod) = year)

\* const name = row.companyName || "Unknown"
CountedName(row) == IF Truthy(row.companyName) THEN Get(row.companyName) ELSE Unknown

\* companyCounts[name]; None is undefined
CompanyCount(sheetData, name) ==
    LET n == Cardinality({i \in 1..Len(sheetData) : CountedName(sheetData[i]) = name})
    IN  IF n = 0 THEN None ELSE Some(n)

\* the choice with >= for >, which keeps the earlier of two names that tie
DominantKeepsFirst(sheetData, a, b) ==
    LET ca == CompanyCount(sheetData, a)
        cb == CompanyCount(sheetData, b)
    IN  IF IsSome(ca) /\ IsSome(cb) /\ Get(ca) >= Get(cb) THEN a ELSE b

\* companyCounts[a] > companyCounts[b] ? a : b; undefined > n is false
Dominant(sheetData, a, b) ==
    LET ca == CompanyCount(sheetData, a)
        cb == CompanyCount(sheetData, b)
    IN  IF IsSome(ca) /\ IsSome(cb) /\ Get(ca) > Get(cb) THEN a ELSE b

NasdPlc == <<"N","A","S","D"," ","P","L","C">>

RECURSIVE ReduceDominant(_, _, _)
ReduceDominant(sheetData, keys, a) ==
    IF keys = <<>> THEN a
    ELSE ReduceDominant(sheetData, Tail(keys), Dominant(sheetData, a, keys[1]))

\* Object.keys(companyCounts): the names in the order the reduce over
\* sheetData created them
CompanyKeys(sheetData) ==
    OwnKeys([i \in 1..Len(sheetData) |-> CountedName(sheetData[i])])

\* const titleName = Object.keys(companyCounts).reduce(..., "NASD PLC")
TitleName(sheetData) ==
    ReduceDominant(sheetData, CompanyKeys(sheetData), NasdPlc)

\* const total = sheetData.reduce((sum, row) => sum + (row.amount || 0), 0)
RECURSIVE Total(_)
Total(sheetData) ==
    IF sheetData = <<>> THEN 0
    ELSE Total(SubSeq(sheetData, 1, Len(sheetData) - 1))
         + sheetData[Len(sheetData)].amount

\* one element of dataRows
StandardRow(row) ==
    [paymentDate |-> IF Truthy(row.paymentDate) THEN Some(DateOf(row.paymentDate))
                     ELSE None,
     period |-> row.paymentPeriod,
     receiptNumber |-> row.receiptNumber,
     taxType |-> row.taxType,
     amount |-> row.amount]

\* the sheet `Remittance ${year}` built from the sorted sheetData
Sheet(year, sheetData) ==
    [name |-> <<"R","e","m","i","t","t","a","n","c","e"," ">> \o year,
     title |-> TitleName(sheetData),
     rows |-> [i \in 1..Len(sheetData) |-> StandardRow(sheetData[i])],
     total |-> Total(sheetData)]

\* the sheets of the workbook, one per year of `years` in that order; each
\* bucket is sorted by Array.prototype.sort
RECURSIVE SheetsFor(_, _)
SheetsFor(ledger, years) ==
    IF years = <<>> THEN {<<>>}
    ELSE {<<Sheet(years[1], sheetData)>> \o rest :
             sheetData \in ArraySort(Bucket(ledger, years[1])),
             rest \in SheetsFor(ledger, Tail(years))}

\* companyFrequency[name]
CompanyFrequency(ledger, name) ==
    Cardinality({i \in 1..Len(ledger) :
                    Truthy(ledger[i].companyName) /\ Get(ledger[i].companyName) = name})

\* companyNames.reduce((a, b) => companyFrequency[a] > companyFrequency[b] ? a : b)
RECURSIVE ReduceFrequent(_, _, _)
ReduceFrequent(ledger, keys, a) ==
    IF keys = <<>> THEN a
    ELSE ReduceFrequent(ledger, Tail(keys),
                        IF CompanyFrequency(ledger, a) > CompanyFrequency(ledger, keys[1])
                        THEN a ELSE keys[1])

\* the company of the first record, whatever the frequencies
FirstCompany(ledger) ==
    IF ledger = <<>> THEN <<"U","n","k","n","o","w","n","_","C","o","m","p","a","n","y">>
    ELSE Get(ledger[1].companyName)

\* let dominantCompany = "Unknown_Company"; ...
DominantCompany(ledger) ==
    LET named == SelectSeq(ledger, LAMBDA row : Truthy(row.companyName))
        companyNames == OwnKeys([i \in 1..Len(named) |-> Get(named[i].companyName)])
    IN  IF companyNames = <<>> THEN <<"U","n","k","n","o","w","n","_","C","o","m","p","a","n","y">>
        ELSE ReduceFrequent(ledger, Tail(companyNames), companyNames[1])

\* /\s+/g replaced by "_"
RECURSIVE UnderscoreSpaces(_)
UnderscoreSpaces(s) ==
    IF s = <<>> THEN <<>>
    ELSE IF s[1] \in WhiteSpace THEN <<"_">> \o UnderscoreSpaces(TrimStart(s))
    ELSE <<s[1]>> \o UnderscoreSpaces(Tail(s))

\* dominantCompany.replace(/[^a-zA-Z0-9\s]/g, "").trim().replace(/\s+/g, "_")
SafeCompanyName(name) ==
    UnderscoreSpaces(Trim(SelectSeq(name,
        LAMBDA c : IsLower(c) \/ IsUpper(c) \/ IsDigit(c) \/ c \in WhiteSpace)))

\* the chain with the test of VAT before the test of WHT
TaxCodeVatFirst(taxType) ==
    LET t == ToUpperCase(taxType)
    IN  IF Includes(t, <<"V","A","T">>) \/ Includes(t, <<"V","A","L","U","E"," ","A","D","D","E","D">>) THEN <<"V","A","T">>
        ELSE IF Includes(t, <<"W","H","T">>) \/ Includes(t, <<"W","I","T","H","H","O","L","D","I","N","G">>) THEN <<"W","H","T">>
        ELSE IF Includes(t, Paye) \/ Includes(t, <<"P","A","Y"," ","A","S"," ","Y","O","U"," ","E","A","R","N">>) THEN Paye
        ELSE IF Includes(t, <<"C","I","T">>) \/ Includes(t, <<"C","O","M","P","A","N","Y"," ","I","N","C","O","M","E">>) THEN <<"C","I","T">>
        ELSE IF Includes(t, <<"E","D","T">>) \/ Includes(t, <<"E","D","U","C","A","T","I","O","N">>) THEN <<"E","D","T">>
        ELSE <<"T","A","X">>

\* the short code extractedTaxTypes.add is given for one taxType
TaxCode(taxType) ==
    LET t == ToUpperCase(taxType)
    IN  IF Includes(t, <<"W","H","T">>) \/ Includes(t, <<"W","I","T","H","H","O","L","D","I","N","G">>) THEN <<"W","H","T">>
        ELSE IF Includes(t, <<"V","A","T">>) \/ Includes(t, <<"V","A","L","U","E"," ","A","D","D","E","D">>) THEN <<"V","A","T">>
        ELSE IF Includes(t, Paye) \/ Includes(t, <<"P","A","Y"," ","A","S"," ","Y","O","U"," ","E","A","R","N">>) THEN Paye
        ELSE IF Includes(t, <<"C","I","T">>) \/ Includes(t, <<"C","O","M","P","A","N","Y"," ","I","N","C","O","M","E">>) THEN <<"C","I","T">>
        ELSE IF Includes(t, <<"E","D","T">>) \/ Includes(t, <<"E","D","U","C","A","T","I","O","N">>) THEN <<"E","D","T">>
        ELSE <<"T","A","X">>

\* extractedTaxTypes
ExtractedTaxTypes(ledger) ==
    {TaxCode(Get(ledger[i].taxType)) : i \in {j \in 1..Len(ledger) : Truthy(ledger[j].taxType)}}

\* the six codes in the order Array.prototype.sort() gives strings
CodesInOrder == << <<"C","I","T">>, <<"E","D","T">>, Paye, <<"T","A","X">>, <<"V","A","T">>, <<"W","H","T">> >>

RECURSIVE Join(_, _)
Join(parts, sep) ==
    IF parts = <<>> THEN <<>>
    ELSE IF Len(parts) = 1 THEN parts[1]
    ELSE parts[1] \o sep \o Join(Tail(parts), sep)

\* Array.from(extractedTaxTypes).sort().join("_") || "Remittance"
TaxTypesStr(ledger) ==
    LET codes == SelectSeq(CodesInOrder, LAMBDA c : c \in ExtractedTaxTypes(ledger))
    IN  IF codes = <<>> THEN <<"R","e","m","i","t","t","a","n","c","e">> ELSE Join(codes, <<"_">>)

\* `${safeCompanyName}_${taxTypesStr}_Schedule.xlsx`
StandardFilename(ledger) ==
    SafeCompanyName(DominantCompany(ledger)) \o <<"_">> \o TaxTypesStr(ledger)
        \o <<"_","S","c","h","e","d","u","l","e",".","x","l","s","x">>

\* the workbooks the standard branch may hand to XLSX.writeFile
StandardWorkbooks(ledger) ==
    {[filename |-> StandardFilename(ledger), sheets |-> sheets] :
        sheets \in SheetsFor(ledger, YearKeys(ledger))}

-----------------------------------------------------------------------------
(* downloadScannerExcel.                                                   *)

NoWorkbook == [filename |-> <<>>, sheets |-> <<>>]

TemplateTypes == {"standard", "upload"}

\* What one call does: [outcome, workbook]. "alert" is the alert of a page
\* without the XLSX library, "written" a workbook given to XLSX.writeFile,
\* "threw" a TypeError that leaves the handler before anything is written.
\* What XLSX.writeFile does with a workbook without sheets is the library's
\* business: it may write it or throw.
Exports(templateType, hasXLSX, ledger) ==
    IF ~hasXLSX THEN {[outcome |-> "alert", workbook |-> NoWorkbook]}
    ELSE IF templateType = "upload"
    THEN IF UploadThrows(ledger)
         THEN {[outcome |-> "threw", workbook |-> NoWorkbook]}
         ELSE {[outcome |-> "written", workbook |-> wb] : wb \in UploadWorkbooks(ledger)}
    ELSE {[outcome |-> "written", workbook |-> wb] : wb \in StandardWorkbooks(ledger)}
         \cup (IF ledger = <<>>
               THEN {[outcome |-> "threw", workbook |-> NoWorkbook]} ELSE {})

-----------------------------------------------------------------------------
(* The handlers.                                                           *)

Init ==
    /\ ai \in BOOLEAN
    /\ selectedFiles = <<>>
    /\ scannerIsLoading = FALSE
    /\ scannerResults = <<>>
    /\ scannerMessages = <<>>
    /\ showDownloadModal = FALSE
    /\ files = <<>>
    /\ idx = 0
    /\ uniqueKeys = {}
    /\ results = <<>>
    /\ sent = <<>>
    /\ exportOutcome = "none"
    /\ artifact = NoWorkbook

\* handleFileChange(files) with a file list; handleDrop ends in it too
handleFileChange(selection) ==
    /\ selectedFiles' = selection
    /\ scannerResults' = <<>>
    /\ scannerMessages' = <<>>
    /\ exportOutcome' = "none"
    /\ artifact' = NoWorkbook
    /\ UNCHANGED <<ai, scannerIsLoading, showDownloadModal, files, idx,
                   uniqueKeys, results, sent>>

\* the Process Files button: disabled={selectedFiles.length === 0 || scannerIsLoading}
ProcessEnabled == selectedFiles # <<>> /\ ~scannerIsLoading

\* processReceipts without a client: if (!ai) { ...; return; }
processReceiptsNoClient ==
    /\ ProcessEnabled
    /\ ~ai
    /\ scannerMessages' = <<Message("error", "AI client not initialized.", <<>>)>>
    /\ UNCHANGED <<ai, selectedFiles, scannerIsLoading, scannerResults,
                   showDownloadModal, files, idx, uniqueKeys, results, sent,
                   exportOutcome, artifact>>

\* processReceipts up to the loop
processReceiptsStart ==
    /\ ProcessEnabled
    /\ ai
    /\ scannerIsLoading' = TRUE
    /\ scannerMessages' = <<>>
    /\ scannerResults' = <<>>
    /\ files' = selectedFiles
    /\ idx' = 0
    /\ uniqueKeys' = {}
    /\ results' = <<>>
    /\ sent' = <<>>
    /\ exportOutcome' = "none"
    /\ artifact' = NoWorkbook
    /\ UNCHANGED <<ai, selectedFiles, showDownloadModal>>

\* one iteration of the loop, the service answering `response` if asked
processReceiptsFile(response) ==
    /\ scannerIsLoading
    /\ idx < Len(files)
    /\ LET st == Iteration(files[idx + 1], response,
                           [uniqueKeys |-> uniqueKeys, results |-> results,
                            scannerMessages |-> scannerMessages, sent |-> sent])
       IN  /\ uniqueKeys' = st.uniqueKeys
           /\ results' = st.results
           /\ scannerMessages' = st.scannerMessages
           /\ sent' = st.sent
    /\ idx' = idx + 1
    /\ UNCHANGED <<ai, selectedFiles, scannerIsLoading, scannerResults,
                   showDownloadModal, files, exportOutcome, artifact>>

\* processReceipts after the loop: results.sort(...); setScannerResults(results);
\* setScannerIsLoading(false). The call returns and its locals are gone.
processReceiptsFinish ==
    /\ scannerIsLoading
    /\ idx = Len(files)
    /\ \E sorted \in ArraySort(results) : scannerResults' = sorted
    /\ scannerIsLoading' = FALSE
    /\ files' = <<>>
    /\ idx' = 0
    /\ uniqueKeys' = {}
    /\ results' = <<>>
    /\ sent' = <<>>
    /\ exportOutcome' = "none"
    /\ artifact' = NoWorkbook
    /\ UNCHANGED <<ai, selectedFiles, scannerMessages, showDownloadModal>>

\* the Download Schedule button, rendered while scannerResults.length > 0
handleDownloadClick ==
    /\ Len(scannerResults) > 0
    /\ showDownloadModal' = TRUE
    /\ UNCHANGED <<ai, selectedFiles, scannerIsLoading, scannerResults,
                   scannerMessages, files, idx, uniqueKeys, results, sent,
                   exportOutcome, artifact>>

\* the Cancel button of the modal
handleDownloadCancel ==
    /\ showDownloadModal
    /\ showDownloadModal' = FALSE
    /\ UNCHANGED <<ai, selectedFiles, scannerIsLoading, scannerResults,
                   scannerMessages, files, idx, uniqueKeys, results, sent,
                   exportOutcome, artifact>>

\* a format button of the modal: handleDownloadConfirm(type), which closes
\* the modal and calls downloadScannerExcel(type); hasXLSX is window.XLSX
\* being there
handleDownloadConfirm(templateType, hasXLSX) ==
    /\ showDownloadModal
    /\ showDownloadModal' = FALSE
    /\ \E e \in Exports(templateType, hasXLSX, scannerResults) :
          /\ exportOutcome' = e.outcome
          /\ artifact' = IF e.outcome = "written" THEN e.workbook ELSE artifact
    /\ UNCHANGED <<ai, selectedFiles, scannerIsLoading, scannerResults,
                   scannerMessages, files, idx, uniqueKeys, results, sent>>

-----------------------------------------------------------------------------
(* The specifications.                                                     *)

\* Specification Spec: the selections the user may make
PageSelections == Selections(Documents, MaxFiles)

\* The whole page: selections, runs and exports in any order the page allows.
Next ==
    \/ \E selection \in PageSelections : handleFileChange(selection)
    \/ processReceiptsNoClient
    \/ processReceiptsStart
    \/ \E response \in Responses : processReceiptsFile(response)
    \/ processReceiptsFinish
    \/ handleDownloadClick
    \/ handleDownloadCancel
    \/ \E templateType \in TemplateTypes, hasXLSX \in BOOLEAN :
          handleDownloadConfirm(templateType, hasXLSX)

Spec == Init /\ [][Next]_vars

-----------------------------------------------------------------------------
(* Specification SpecRun: one selection of documents the scanner accepts,  *)
(* run any number of times, the service answering out of RunResponses.     *)

RunBatch(n) == [i \in 1..n |-> Doc(i, 1024, "image/png")]

R1 == <<"R","1">>

RunResponses ==
    {Failure,
     \* paid on the 31st, no period
     Response(TRUE, Some(Acme), Some(IsoDate(2025, 3, 31)), None,
              Some(R1), Some(Paye), 100),
     \* paid in January, no period
     Response(TRUE, Some(Beta), Some(IsoDate(2025, 1, 15)), None,
              Some(<<"R","2">>), Some(Paye), 100),
     \* neither date nor period
     Response(TRUE, Some(Acme), None, None, Some(<<"R","3">>), Some(Paye), 100),
     \* a date the engine cannot parse, no period
     Response(TRUE, Some(Acme), Some(<<"2","1","/","0","1","/","2","0","2","5">>), None,
              Some(<<"R","4">>), Some(Paye), 100),
     \* receipt R1 again, with blanks around it and other fields
     Response(TRUE, Some(Beta), Some(IsoDate(2025, 2, 10)), Some(Feb25),
              Some(<<" ","R","1"," ">>), Some(<<"V","A","T">>), 100),
     \* receipt R1 again, no company
     Response(TRUE, None, Some(IsoDate(2025, 2, 10)), Some(Feb25),
              Some(R1), Some(Paye), 100),
     \* no receipt number
     Response(TRUE, Some(Acme), Some(IsoDate(2025, 2, 10)), Some(Feb25),
              None, Some(Paye), 100),
     \* receipt "R-" for 1, receipt "R" for -1
     Response(TRUE, Some(Acme), Some(IsoDate(2025, 2, 10)), Some(Feb25),
              Some(<<"R","-">>), Some(Paye), 1),
     Response(TRUE, Some(Acme), Some(IsoDate(2025, 2, 10)), Some(Feb25),
              Some(<<"R">>), Some(Paye), -1),
     \* paid on the day of R2
     Response(TRUE, Some(Acme), Some(IsoDate(2025, 1, 15)), Some(Dec24),
              Some(<<"R","9">>), Some(Paye), 100)}

InitRun ==
    /\ ai = TRUE
    /\ selectedFiles \in {RunBatch(n) : n \in 1..MaxBatch}
    /\ scannerIsLoading = FALSE
    /\ scannerResults = <<>>
    /\ scannerMessages = <<>>
    /\ showDownloadModal = FALSE
    /\ files = <<>>
    /\ idx = 0
    /\ uniqueKeys = {}
    /\ results = <<>>
    /\ sent = <<>>
    /\ exportOutcome = "none"
    /\ artifact = NoWorkbook

NextRun ==
    \/ processReceiptsStart
    \/ \E response \in RunResponses : processReceiptsFile(response)
    \/ processReceiptsFinish

SpecRun == InitRun /\ [][NextRun]_vars

-----------------------------------------------------------------------------
(* The deduplicator: C2, C3.                                               *)

\* the pair a record is identified by: trimmed receiptNumber and amount
IdentityPair(data) == <<Trim(Get(data.receiptNumber)), data.amount>>

\* the run has admitted a record with the pair of this extraction
PairAdmitted(data) ==
    /\ IsSome(data.receiptNumber)
    /\ \E i \in 1..Len(results) : IdentityPair(results[i]) = IdentityPair(data)

NoPairTwice(ledger) ==
    \A i, j \in 1..Len(ledger) :
        IdentityPair(ledger[i]) = IdentityPair(ledger[j]) => i = j

LastMessage(messages) == messages[Len(messages)]

\* C2, as the claim states it: within one run, an extraction whose trimmed
\* receiptNumber and amount are those of a record already admitted is
\* rejected with a warning and not appended, whatever its other fields; and
\* the ledger never holds two records with the same pair.
C2_DuplicateWarned ==
    /\ [](NoPairTwice(results) /\ NoPairTwice(scannerResults))
    /\ [][\A response \in RunResponses :
            (processReceiptsFile(response) /\ response.ok
                /\ PairAdmitted(response.data))
            => /\ results' = results
               /\ Len(scannerMessages') = Len(scannerMessages) + 1
               /\ LastMessage(scannerMessages').type = "warning"]_vars

\* C2, amended: the same, except that the diagnostic is a warning when the
\* extraction names a company and an error when it does not.
C2_DuplicateRejected ==
    /\ [](NoPairTwice(results) /\ NoPairTwice(scannerResults))
    /\ [][\A response \in RunResponses :
            (processReceiptsFile(response) /\ response.ok
                /\ PairAdmitted(response.data))
            => /\ results' = results
               /\ uniqueKeys' = uniqueKeys
               /\ Len(scannerMessages') = Len(scannerMessages) + 1
               /\ LastMessage(scannerMessages').type =
                     IF Truthy(response.data.companyName)
                     THEN "warning" ELSE "error"]_vars

\* a run that admitted a record and then turned away both a repeat of its
\* receipt with a company and one without
C2_Witness ==
    /\ scannerIsLoading
    /\ Len(results) = 1
    /\ Len(scannerMessages) = 3
    /\ scannerMessages[2].type = "warning"
    /\ scannerMessages[3].text = "Failed to process file: AI did not return valid data."

\* C3: within one run, an extraction that passes validation and whose
\* trimmed receiptNumber or amount differs from that of every record
\* admitted so far is admitted.
C3_DistinctAdmitted ==
    [][\A response \in RunResponses :
          (processReceiptsFile(response) /\ response.ok
              /\ Truthy(response.data.companyName)
              /\ IsSome(response.data.receiptNumber)
              /\ ~PairAdmitted(response.data))
          => /\ results' = Append(results, callScannerGeminiAPI(response.data))
             /\ LastMessage(scannerMessages').type = "success"]_vars

-----------------------------------------------------------------------------
(* The ledger's order: C4.                                                 *)

TimeOf(row) == GetTime(DateOf(row.paymentDate))

\* no record with a date comes before one with an earlier date
NonDecreasing(ledger) ==
    \A i, j \in 1..Len(ledger) :
        (i < j /\ IsSome(TimeOf(ledger[i])) /\ IsSome(TimeOf(ledger[j])))
        => Get(TimeOf(ledger[i])) <= Get(TimeOf(ledger[j]))

PlaceIn(ledger, row) == CHOOSE i \in 1..Len(ledger) : ledger[i] = row

\* records of one date stand in `ledger` as they stand in `admitted`
TiesKeepOrder(admitted, ledger) ==
    \A i, j \in 1..Len(admitted) :
        (i < j /\ IsSome(TimeOf(admitted[i]))
               /\ TimeOf(admitted[i]) = TimeOf(admitted[j]))
        => PlaceIn(ledger, admitted[i]) < PlaceIn(ledger, admitted[j])

\* C4: the ledger a completed run publishes is non-decreasing by
\* paymentDate, and records of equal paymentDate keep the order in which
\* they were admitted.
C4_LedgerSorted ==
    [][processReceiptsFinish
       => /\ NonDecreasing(scannerResults')
          /\ TiesKeepOrder(results, scannerResults')]_vars

-----------------------------------------------------------------------------
(* The normalizer: C5, C7, C8.                                             *)

\* the month before the month of `date`, as "Mon-YY"
PrecedingPeriod(date) ==
    LET y == IF date.m = 0 THEN date.y - 1 ELSE date.y
        m == IF date.m = 0 THEN 11 ELSE date.m - 1
    IN  MonthShort[m + 1] \o <<"-">>
            \o <<DigitChars[((y \div 10) % 10) + 1], DigitChars[(y % 10) + 1]>>

\* C5: an extraction without paymentPeriod whose paymentDate is a date of
\* the calendar, whatever the day of the month, gets the period of the
\* month before the month of paymentDate, the year rolling back in January.
C5_PeriodIsPrecedingMonth ==
    [][\A response \in RunResponses :
          (processReceiptsFile(response) /\ response.ok
              /\ ~IsSome(response.data.paymentPeriod)
              /\ DateOf(response.data.paymentDate).valid
              /\ Len(results') = Len(results) + 1)
          => results'[Len(results')].paymentPeriod =
                Some(PrecedingPeriod(DateOf(response.data.paymentDate)))]_vars

\* C7: an extraction without companyName or without receiptNumber is
\* rejected with an error diagnostic naming its document; no record is
\* added, no key recorded, and the run goes on to the next document.
C7_InvalidExtractionRejected ==
    [][\A response \in RunResponses :
          (processReceiptsFile(response) /\ response.ok
              /\ (~IsSome(response.data.companyName)
                  \/ ~IsSome(response.data.receiptNumber)))
          => /\ results' = results
             /\ uniqueKeys' = uniqueKeys
             /\ Len(scannerMessages') = Len(scannerMessages) + 1
             /\ LastMessage(scannerMessages').type = "error"
             /\ LastMessage(scannerMessages').file = files[idx + 1].name
             /\ SubSeq(scannerMessages', 1, Len(scannerMessages)) = scannerMessages
             /\ scannerIsLoading'
             /\ files' = files
             /\ idx' = idx + 1]_vars

\* a run that met an extraction without company and one without receipt
\* number after it had admitted a record, and has a document left
C7_Witness ==
    /\ scannerIsLoading
    /\ Len(results) = 1
    /\ idx = 3
    /\ scannerMessages[1].type = "success"
    /\ scannerMessages[2].text = "Failed to process file: AI did not return valid data."
    /\ scannerMessages[3].text = "Failed to process file: TypeError"

\* C8: every record admitted to the ledger has a non-empty paymentPeriod.
C8_PeriodNeverEmpty ==
    /\ \A i \in 1..Len(results) : Truthy(results[i].paymentPeriod)
    /\ \A i \in 1..Len(scannerResults) : Truthy(scannerResults[i].paymentPeriod)

-----------------------------------------------------------------------------
(* The orchestrator under Spec: C1, C9.                                    *)

DiagnosticTypes == {"success", "warning", "error"}

\* the diagnostics of the run in flight are those of the documents it
\* finished last, one each and in their order (a selection made during the
\* run empties the list, and the run goes on adding to it)
DiagnosticsFollowDocuments ==
    scannerIsLoading =>
        /\ Len(scannerMessages) <= idx
        /\ \A j \in 1..Len(scannerMessages) :
              /\ scannerMessages[j].file = files[idx - Len(scannerMessages) + j].name
              /\ scannerMessages[j].type \in DiagnosticTypes

\* C1: a run with a client emits exactly one diagnostic per document,
\* whatever the document's outcome, in the order of the documents, and no
\* outcome of one document keeps the run from the next: every iteration
\* adds one diagnostic naming its document and leaves the run in flight
\* with one document more behind it.
C1_OneDiagnosticPerDocument ==
    /\ []DiagnosticsFollowDocuments
    /\ [][\A response \in Responses :
            processReceiptsFile(response)
            => /\ Len(scannerMessages') = Len(scannerMessages) + 1
               /\ SubSeq(scannerMessages', 1, Len(scannerMessages)) = scannerMessages
               /\ LastMessage(scannerMessages').file = files[idx + 1].name
               /\ LastMessage(scannerMessages').type \in DiagnosticTypes
               /\ idx' = idx + 1
               /\ files' = files
               /\ scannerIsLoading']_vars

\* a run over two documents, the first of which failed and the second of
\* which was admitted
C1_Witness ==
    /\ scannerIsLoading
    /\ Len(files) = 2
    /\ idx = 2
    /\ Len(scannerMessages) = 2
    /\ scannerMessages[1].type = "error"
    /\ scannerMessages[2].type = "success"

\* C9: the service is never asked about a document of more than 19 MiB or
\* of a media type other than PNG, JPEG, WebP and PDF, which gets a warning
\* and is skipped; a document of exactly 19 MiB of such a type is sent.
C9_OnlyEligibleDocumentsSent ==
    /\ [](\A i \in 1..Len(sent) :
            /\ sent[i].size <= 19 * 1024 * 1024
            /\ sent[i].type \in {"image/png", "image/jpeg", "image/webp",
                                 "application/pdf"})
    /\ [][\A response \in Responses :
            processReceiptsFile(response)
            => LET file == files[idx + 1]
                   accepted == file.type \in {"image/png", "image/jpeg",
                                              "image/webp", "application/pdf"}
               IN  /\ (file.size > 19 * 1024 * 1024 \/ ~accepted)
                        => /\ sent' = sent
                           /\ results' = results
                           /\ LastMessage(scannerMessages').type = "warning"
                           /\ LastMessage(scannerMessages').file = file.name
                   /\ (file.size = 19 * 1024 * 1024 /\ accepted)
                        => sent' = Append(sent, file)]_vars

\* a run that sent a document of exactly 19 MiB and skipped one of a byte more
C9_Witness ==
    /\ scannerIsLoading
    /\ \E i \in 1..Len(sent) : sent[i].size = 19 * 1024 * 1024
    /\ \E j \in 1..Len(scannerMessages) :
          scannerMessages[j].text = "File skipped (too large)"
    /\ \E j \in 1..Len(scannerMessages) : scannerMessages[j].type = "success"

-----------------------------------------------------------------------------
(* The export of an empty ledger: C6.                                      *)

\* C6: an export asked for while the ledger is empty, in either mode, fails
\* with an error shown to the user: nothing is written, nothing thrown, and
\* the state of the batch stays as it is.
C6_EmptyLedgerExportFails ==
    [][\A templateType \in TemplateTypes, hasXLSX \in BOOLEAN :
          (handleDownloadConfirm(templateType, hasXLSX) /\ scannerResults = <<>>)
          => /\ exportOutcome' = "alert"
             /\ artifact' = artifact
             /\ UNCHANGED <<selectedFiles, scannerResults, scannerMessages,
                            scannerIsLoading>>]_vars

-----------------------------------------------------------------------------
(* Specification SpecExport: one selection of documents the scanner        *)
(* accepts, run and exported any number of times, the service answering    *)
(* out of ExportResponses.                                                 *)

ExportResponses ==
    {Response(TRUE, Some(Acme), Some(IsoDate(2025, 3, 10)), Some(Feb25),
              Some(R1), Some(Paye), 100),
     Response(TRUE, Some(Beta), Some(IsoDate(2025, 1, 15)), Some(Feb25),
              Some(<<"R","2">>), Some(<<"V","A","T">>), 200),
     Response(TRUE, Some(<<"7">>), Some(IsoDate(2025, 2, 10)), Some(Feb25),
              Some(<<"R","3">>), Some(<<"D","e","v","e","l","o","p","m","e","n","t"," ","L","e","v","y">>), 50),
     Response(TRUE, Some(Acme), Some(IsoDate(2025, 1, 5)), Some(Dec24),
              Some(<<"R","4">>), Some(<<"L","a","g","o","s"," ","R","e","v","e","n","u","e"," ","P","a","y","m","e","n","t">>), 30),
     Response(TRUE, Some(Beta), Some(IsoDate(2024, 12, 20)), Some(Dec24),
              Some(<<"R","5">>), Some(<<"W","H","T"," ","O","N"," ","D","I","R","E","C","T","O","R","'","S"," ","F","E","E","S">>), 7),
     Response(TRUE, Some(Acme), None, None,
              Some(<<"R","6">>), Some(Paye), 1)}

InitExport ==
    /\ ai = TRUE
    /\ selectedFiles \in {RunBatch(n) : n \in 1..MaxLedger}
    /\ scannerIsLoading = FALSE
    /\ scannerResults = <<>>
    /\ scannerMessages = <<>>
    /\ showDownloadModal = FALSE
    /\ files = <<>>
    /\ idx = 0
    /\ uniqueKeys = {}
    /\ results = <<>>
    /\ sent = <<>>
    /\ exportOutcome = "none"
    /\ artifact = NoWorkbook

NextExport ==
    \/ processReceiptsStart
    \/ \E response \in ExportResponses : processReceiptsFile(response)
    \/ processReceiptsFinish
    \/ handleDownloadClick
    \/ handleDownloadCancel
    \/ \E templateType \in TemplateTypes, hasXLSX \in BOOLEAN :
          handleDownloadConfirm(templateType, hasXLSX)

SpecExport == InitExport /\ [][NextExport]_vars

-----------------------------------------------------------------------------
(* The title of a year's sheet: C10.                                       *)

\* a workbook of the standard template was written for the ledger exposed
StandardWritten == exportOutcome = "written" /\ artifact.filename # UploadFilename

\* the record of the ledger a data row of a sheet was made from
RecordOf(row) ==
    scannerResults[CHOOSE i \in 1..Len(scannerResults) :
                      StandardRow(scannerResults[i]) = row]

\* the company of each data row of the sheet, in the order of the rows
RowCompanies(sheet) ==
    [i \in 1..Len(sheet.rows) |-> Get(RecordOf(sheet.rows[i]).companyName)]

Occurrences(names, name) == Cardinality({i \in 1..Len(names) : names[i] = name})

FirstPlace(names, name) ==
    CHOOSE i \in 1..Len(names) : names[i] = name /\ \A j \in 1..(i - 1) : names[j] # name

\* the names of the sheet that no other name occurs more often than
MostFrequent(names) ==
    {names[i] : i \in {k \in 1..Len(names) :
        \A j \in 1..Len(names) :
            Occurrences(names, names[k]) >= Occurrences(names, names[j])}}

\* a comes before b among the keys of the object that counts the names: a
\* name that is a canonical array index comes before one that is not, two
\* such names stand in numeric order, two others in the order of their
\* first rows
KeyBefore(names, a, b) ==
    IF IsArrayIndex(a) /\ IsArrayIndex(b) THEN DigitsToNat(a) < DigitsToNat(b)
    ELSE IF IsArrayIndex(a) THEN TRUE
    ELSE IF IsArrayIndex(b) THEN FALSE
    ELSE FirstPlace(names, a) < FirstPlace(names, b)

\* C10, as the claim states it: the title of a year's sheet is the company
\* most frequent among the sheet's rows, and of several that tie the one
\* met first in the order of the rows.
C10_TitleFirstOfTied ==
    StandardWritten =>
        \A k \in 1..Len(artifact.sheets) :
            LET sheet == artifact.sheets[k]
                names == RowCompanies(sheet)
            IN  /\ sheet.title \in MostFrequent(names)
                /\ \A other \in MostFrequent(names) :
                      FirstPlace(names, sheet.title) <= FirstPlace(names, other)

\* C10, amended: the title of a year's sheet is the company most frequent
\* among the sheet's rows, and of several that tie the one that is last
\* among the keys of the count object; every sheet has rows, so that
\* "NASD PLC" is no sheet's title unless it is the name of such a company.
C10_TitleLastOfTied ==
    StandardWritten =>
        \A k \in 1..Len(artifact.sheets) :
            LET sheet == artifact.sheets[k]
                names == RowCompanies(sheet)
            IN  /\ Len(sheet.rows) > 0
                /\ sheet.title \in MostFrequent(names)
                /\ \A other \in MostFrequent(names) \ {sheet.title} :
                      KeyBefore(names, other, sheet.title)

\* a workbook with a sheet on which two companies tie, whose title is the
\* one of the later row
C10_Witness ==
    /\ StandardWritten
    /\ \E k \in 1..Len(artifact.sheets) :
          LET sheet == artifact.sheets[k]
              names == RowCompanies(sheet)
          IN  /\ Len(sheet.rows) = 2
              /\ names[1] = Beta
              /\ names[2] = Acme
              /\ sheet.title = Acme

-----------------------------------------------------------------------------
(* Specification SpecFilename: as SpecExport, the service answering out of *)
(* FilenameResponses: company names with punctuation and runs of spaces,   *)
(* tax types of several codes and a record without tax type.               *)

AcmeCorp == <<"A","c","m","e"," ","C","o","r","p","!">>
BetaSons == <<" ","B","e","t","a"," "," ","&"," "," ","S","o","n","s"," ","(","7",")"," ">>
ValueAddedTax == <<"V","a","l","u","e"," ","A","d","d","e","d"," ","T","a","x">>

FilenameResponses ==
    {Response(TRUE, Some(AcmeCorp), Some(IsoDate(2025, 3, 10)), Some(Feb25),
              Some(R1), Some(Paye), 100),
     Response(TRUE, Some(AcmeCorp), Some(IsoDate(2025, 1, 15)), Some(Dec24),
              Some(<<"R","2">>), Some(ValueAddedTax), 200),
     Response(TRUE, Some(Beta), Some(IsoDate(2025, 2, 10)), Some(Feb25),
              Some(<<"R","3">>), Some(Paye), 50),
     Response(TRUE, Some(BetaSons), Some(IsoDate(2025, 2, 11)), Some(Feb25),
              Some(<<"R","4">>), Some(<<"D","e","v","e","l","o","p","m","e","n","t"," ","L","e","v","y">>), 30),
     Response(TRUE, Some(Beta), Some(IsoDate(2025, 2, 12)), Some(Feb25),
              Some(<<"R","5">>), None, 7)}

NextFilename ==
    \/ processReceiptsStart
    \/ \E response \in FilenameResponses : processReceiptsFile(response)
    \/ processReceiptsFinish
    \/ handleDownloadClick
    \/ handleDownloadCancel
    \/ \E templateType \in TemplateTypes, hasXLSX \in BOOLEAN :
          handleDownloadConfirm(templateType, hasXLSX)

SpecFilename == InitExport /\ [][NextFilename]_vars

-----------------------------------------------------------------------------
(* The name of the standard workbook: C11.                                 *)

\* the words of s: its maximal runs of characters that are not white space
RECURSIVE Words(_)
Words(s) ==
    IF s = <<>> THEN <<>>
    ELSE IF s[1] \in WhiteSpace THEN Words(Tail(s))
    ELSE LET stops == {i \in 1..Len(s) : s[i] \in WhiteSpace}
             n == IF stops = {} THEN Len(s)
                  ELSE (CHOOSE i \in stops : \A j \in stops : i <= j) - 1
         IN  <<SubSeq(s, 1, n)>> \o Words(SubSeq(s, n + 1, Len(s)))

\* sanitize: what is left of the letters, digits and white space of `name`
\* once the ends are trimmed and every run of white space is one underscore
Sanitized(name) ==
    Join(Words(SelectSeq(name,
            LAMBDA c : IsLower(c) \/ IsUpper(c) \/ IsDigit(c) \/ c \in WhiteSpace)),
         <<"_">>)

\* a comes before b in the order of strings of capital letters
RECURSIVE StringLess(_, _)
StringLess(a, b) ==
    IF b = <<>> THEN FALSE
    ELSE IF a = <<>> THEN TRUE
    ELSE LET place(c) == CHOOSE i \in 1..26 : UpperCase[i] = c
         IN  IF a[1] = b[1] THEN StringLess(Tail(a), Tail(b))
             ELSE place(a[1]) < place(b[1])

\* the codes of the rows of the ledger that have a tax type
LedgerCodes(ledger) ==
    {TaxCode(Get(ledger[i].taxType)) :
        i \in {j \in 1..Len(ledger) : Truthy(ledger[j].taxType)}}

\* the sequences that hold each code of `codes` once, in ascending order
AscendingCodes(codes) ==
    {q \in UNION {[1..n -> codes] : n \in {Cardinality(codes)}} :
        /\ \A c \in codes : \E i \in 1..Len(q) : q[i] = c
        /\ \A i \in 1..(Len(q) - 1) : StringLess(q[i], q[i + 1])}

\* T: the codes joined by underscores, "Remittance" when there is none
CodesPart(codes) ==
    IF codes = {} THEN {<<"R","e","m","i","t","t","a","n","c","e">>}
    ELSE {Join(q, <<"_">>) : q \in AscendingCodes(codes)}

\* the companies no company has more records than, over the whole ledger
MostFrequentCompanies(ledger) ==
    MostFrequent([i \in 1..Len(ledger) |-> Get(ledger[i].companyName)])

ScheduleXlsx == <<"_","S","c","h","e","d","u","l","e",".","x","l","s","x">>

\* C11: the standard workbook of a ledger with records is named
\* sanitize(D) + "_" + T + "_Schedule" (.xlsx), D a company no company has
\* more records than over the whole ledger, T the distinct codes of the
\* ledger's rows in ascending order joined by underscores, "Remittance" if
\* no row has a code.
C11_StandardFilename ==
    (StandardWritten /\ scannerResults # <<>>) =>
        \E d \in MostFrequentCompanies(scannerResults),
           t \in CodesPart(LedgerCodes(scannerResults)) :
            artifact.filename = Sanitized(d) \o <<"_">> \o t \o ScheduleXlsx

\* the workbook of a ledger with two records of "Acme Corp!" and one of
\* "Beta", the codes PAYE and VAT: Acme_Corp_PAYE_VAT_Schedule.xlsx
C11_Witness ==
    /\ StandardWritten
    /\ Len(scannerResults) = 3
    /\ Cardinality({i \in 1..3 : scannerResults[i].companyName = Some(AcmeCorp)}) = 2
    /\ Cardinality({i \in 1..3 : scannerResults[i].companyName = Some(Beta)}) = 1
    /\ artifact.filename = <<"A","c","m","e","_","C","o","r","p","_","P","A","Y","E","_","V","A","T","_","S","c","h","e","d","u","l","e",".","x","l","s","x">>

-----------------------------------------------------------------------------
(* Specification SpecClassify: runs over at most MaxRows documents of one  *)
(* company and their exports, the tax type of each record one of TaxTypes. *)

TaxTypes ==
    << <<"W","H","T"," ","O","N"," ","D","I","R","E","C","T","O","R","'","S"," ","F","E","E","S">>, <<"D","e","v","e","l","o","p","m","e","n","t"," ","L","e","v","y">>, <<"v","a","t"," ","w","i","t","h","h","o","l","d","i","n","g">>,
       <<"P","a","y"," ","A","s"," ","Y","o","u"," ","E","a","r","n">>, <<"P","A","Y","E"," ","/"," ","C","o","m","p","a","n","y"," ","I","n","c","o","m","e"," ","T","a","x">>,
       <<"c","i","t">>, <<"E","d","u","c","a","t","i","o","n"," ","T","a","x">>, <<"E","D","T"," ","&"," ","V","A","T">> >>

ClassifyResponses ==
    {Response(TRUE, Some(Acme), Some(IsoDate(2025, 3, 10)), Some(Feb25),
              Some(<<"T", DigitChars[i]>>), Some(TaxTypes[i]), 100) :
        i \in 1..Len(TaxTypes)}

InitClassify ==
    /\ ai = TRUE
    /\ selectedFiles \in {RunBatch(n) : n \in 1..MaxRows}
    /\ scannerIsLoading = FALSE
    /\ scannerResults = <<>>
    /\ scannerMessages = <<>>
    /\ showDownloadModal = FALSE
    /\ files = <<>>
    /\ idx = 0
    /\ uniqueKeys = {}
    /\ results = <<>>
    /\ sent = <<>>
    /\ exportOutcome = "none"
    /\ artifact = NoWorkbook

NextClassify ==
    \/ processReceiptsStart
    \/ \E response \in ClassifyResponses : processReceiptsFile(response)
    \/ processReceiptsFinish
    \/ handleDownloadClick
    \/ handleDownloadCancel
    \/ \E templateType \in TemplateTypes, hasXLSX \in BOOLEAN :
          handleDownloadConfirm(templateType, hasXLSX)

SpecClassify == InitClassify /\ [][NextClassify]_vars

-----------------------------------------------------------------------------
(* The classifier: C12.                                                    *)

\* the rules in their order of priority: a code and the words that name it
ClassifierRules ==
    << [code |-> <<"W","H","T">>, words |-> {<<"W","H","T">>, <<"W","I","T","H","H","O","L","D","I","N","G">>}],
       [code |-> <<"V","A","T">>, words |-> {<<"V","A","T">>, <<"V","A","L","U","E"," ","A","D","D","E","D">>}],
       [code |-> <<"P","A","Y","E">>, words |-> {<<"P","A","Y","E">>, <<"P","A","Y"," ","A","S"," ","Y","O","U"," ","E","A","R","N">>}],
       [code |-> <<"C","I","T">>, words |-> {<<"C","I","T">>, <<"C","O","M","P","A","N","Y"," ","I","N","C","O","M","E">>}],
       [code |-> <<"E","D","T">>, words |-> {<<"E","D","T">>, <<"E","D","U","C","A","T","I","O","N">>}] >>

\* the code of the first rule one of whose words is in taxType, whatever
\* the case of its letters; TAX when there is no such rule
Classified(taxType) ==
    LET hits == {i \in 1..Len(ClassifierRules) :
                    \E w \in ClassifierRules[i].words :
                        Includes(ToUpperCase(taxType), w)}
    IN  IF hits = {} THEN <<"T","A","X">>
        ELSE ClassifierRules[CHOOSE i \in hits : \A j \in hits : i <= j].code

EndsWith(s, tail) ==
    Len(s) >= Len(tail) /\ SubSeq(s, Len(s) - Len(tail) + 1, Len(s)) = tail

\* C12: every tax type that is not empty gets the one code of the first
\* rule that matches it in the order WHT, VAT, PAYE, CIT, EDT, and TAX if
\* none does: the codes in the name of the standard workbook are those of
\* the tax types of the ledger's rows.
C12_FirstRuleClassifies ==
    (StandardWritten /\ scannerResults # <<>>) =>
        \E t \in CodesPart({Classified(Get(scannerResults[i].taxType)) :
                               i \in 1..Len(scannerResults)}) :
            EndsWith(artifact.filename, <<"_">> \o t \o ScheduleXlsx)

\* the workbook of the one record "vat withholding", which two rules match
C12_Witness ==
    /\ StandardWritten
    /\ Len(scannerResults) = 1
    /\ scannerResults[1].taxType = Some(<<"v","a","t"," ","w","i","t","h","h","o","l","d","i","n","g">>)
    /\ artifact.filename = <<"A","c","m","e","_","W","H","T","_","S","c","h","e","d","u","l","e",".","x","l","s","x">>

-----------------------------------------------------------------------------
(* Specification SpecUpload: runs over at most MaxRows documents and their *)
(* exports, the service answering out of UploadResponses: periods in three *)
(* letter cases, tax types in and out of the PAYE family.                  *)

UploadResponses ==
    {Response(TRUE, Some(Acme), Some(IsoDate(2025, 2, 10)), Some(<<"j","a","n","-","2","5">>),
              Some(<<"U","1">>), Some(Paye), 100),
     Response(TRUE, Some(Acme), Some(IsoDate(2025, 2, 11)), Some(<<"J","a","n","-","2","5">>),
              Some(<<"U","2">>), Some(<<"W","H","T"," ","O","N"," ","D","I","R","E","C","T","O","R","'","S"," ","F","E","E","S">>), 200),
     Response(TRUE, Some(Acme), Some(IsoDate(2025, 2, 12)), Some(<<"J","A","N","-","2","5">>),
              Some(<<"U","3">>), Some(<<"L","a","g","o","s"," ","R","e","v","e","n","u","e"," ","P","a","y","m","e","n","t">>), 30),
     Response(TRUE, Some(Acme), Some(IsoDate(2025, 3, 10)), Some(Feb25),
              Some(<<"U","4">>), Some(<<"r","e","v","e","n","u","e"," ","r","e","c","e","i","p","t">>), 40),
     Response(TRUE, Some(Acme), Some(IsoDate(2025, 1, 10)), Some(<<"d","e","c","-","2","4">>),
              Some(<<"U","5">>), Some(<<"D","e","v","e","l","o","p","m","e","n","t"," ","L","e","v","y">>), 50),
     Response(TRUE, Some(Acme), Some(IsoDate(2025, 1, 11)), Some(Dec24),
              Some(<<"U","6">>), Some(<<"P","a","y","e"," ","A","r","r","e","a","r","s">>), 60),
     Response(TRUE, Some(Acme), Some(IsoDate(2025, 2, 13)), Some(<<"J","a","n","-","2","5">>),
              Some(<<"U","7">>), Some(<<"P","a","y"," ","A","s"," ","Y","o","u"," ","E","a","r","n">>), 70)}

NextUpload ==
    \/ processReceiptsStart
    \/ \E response \in UploadResponses : processReceiptsFile(response)
    \/ processReceiptsFinish
    \/ handleDownloadClick
    \/ handleDownloadCancel
    \/ \E templateType \in TemplateTypes, hasXLSX \in BOOLEAN :
          handleDownloadConfirm(templateType, hasXLSX)

SpecUpload == InitClassify /\ [][NextUpload]_vars

-----------------------------------------------------------------------------
(* PERIOD OF PAYMENT in the upload workbook: C13.                          *)

\* a workbook of the upload template was written for the ledger exposed
UploadWritten == exportOutcome = "written" /\ artifact.filename = UploadFilename

\* the record of the ledger with the receipt number of a row
RecordOfReceipt(receiptNumber) ==
    scannerResults[CHOOSE i \in 1..Len(scannerResults) :
                      scannerResults[i].receiptNumber = receiptNumber]

\* the months that Mon abbreviates, whatever the case of its letters
MonthsOf(Mon) == {i \in 1..12 : ToUpperCase(MonthShort[i]) = ToUpperCase(Mon)}

\* period is Mon-YY: a month abbreviation, one hyphen, two digits
IsMonYY(period) ==
    /\ Len(period) = 6
    /\ period[4] = "-"
    /\ MonthsOf(SubSeq(period, 1, 3)) # {}
    /\ AllDigits(SubSeq(period, 5, 6))

\* the tax types the override turns into "PAYE"
GenericRevenuePayment(taxType) ==
    \/ Includes(ToUpperCase(taxType), LagosRevenuePayment)
    \/ ToUpperCase(taxType) \in {RevenuePayment, RevenueReceipt}

\* the PAYE family: the tax types that hold "PAYE" in letters of any case
PayeFamily(displayTaxType) == Includes(ToUpperCase(displayTaxType), Paye)

\* C13: in the upload workbook, the row of a record whose paymentPeriod is
\* Mon-YY shows, as PERIOD OF PAYMENT, the full name of the month Mon in
\* capitals, whatever the case of Mon, if the tax type the row displays is
\* of the PAYE family, and the year "20" + YY if it is not; the tax type
\* displayed is "PAYE" for a generic revenue payment and the record's tax
\* type otherwise.
C13_UploadPeriod ==
    UploadWritten =>
        \A k \in 1..Len(artifact.sheets[1].rows) :
            LET row == artifact.sheets[1].rows[k]
                record == RecordOfReceipt(row.receiptNumber)
                period == Get(record.paymentPeriod)
            IN  /\ row.revenueItem =
                      IF GenericRevenuePayment(Get(record.taxType)) THEN Paye
                      ELSE Get(record.taxType)
                /\ IsMonYY(period) =>
                      row.periodOfPayment =
                          IF PayeFamily(row.revenueItem)
                          THEN MonthLong[CHOOSE i \in MonthsOf(SubSeq(period, 1, 3)) : TRUE]
                          ELSE <<"2","0">> \o SubSeq(period, 5, 6)

\* an upload workbook whose rows show JANUARY for "JAN-25" of a Lagos
\* revenue payment and 2025 for "Jan-25" of a withholding tax
C13_Witness ==
    /\ UploadWritten
    /\ Len(scannerResults) = 2
    /\ \E k \in 1..2 :
          LET row == artifact.sheets[1].rows[k]
          IN  /\ RecordOfReceipt(row.receiptNumber).paymentPeriod = Some(<<"J","A","N","-","2","5">>)
              /\ row.revenueItem = Paye
              /\ row.periodOfPayment = <<"J","A","N","U","A","R","Y">>
    /\ \E k \in 1..2 :
          LET row == artifact.sheets[1].rows[k]
          IN  /\ RecordOfReceipt(row.receiptNumber).paymentPeriod = Some(<<"J","a","n","-","2","5">>)
              /\ row.revenueItem = <<"W","H","T"," ","O","N"," ","D","I","R","E","C","T","O","R","'","S"," ","F","E","E","S">>
              /\ row.periodOfPayment = <<"2","0","2","5">>

-----------------------------------------------------------------------------
(* The ledger and the selection: C14.                                      *)

\* C14: once a new set of documents is selected while a run over the
\* selection before it is in flight, no record of that run is in the ledger
\* from then on: the run publishes nothing when it ends, so that a ledger
\* with records holds records of the documents selected only.
C14_LedgerOfCurrentBatch ==
    [][(processReceiptsFinish /\ selectedFiles # <<>> /\ files # selectedFiles)
          => scannerResults' = <<>>]_vars

-----------------------------------------------------------------------------
(* The ledger during a run: C15.                                           *)

\* b holds the records of a, each as often as a holds it
SameRecords(a, b) ==
    /\ Len(a) = Len(b)
    /\ \A i \in 1..Len(a) :
          Cardinality({j \in 1..Len(a) : a[j] = a[i]})
              = Cardinality({j \in 1..Len(b) : b[j] = a[i]})

\* C15: from the start of a run to its last document the ledger exposed is
\* empty; it is set once per run, by the step that ends the run, to all the
\* records admitted, sorted by date (the order of C4); no other step puts a
\* record into it.
C15_NoPartialLedger ==
    /\ [](scannerIsLoading => scannerResults = <<>>)
    /\ [][(scannerResults' # scannerResults /\ scannerResults' # <<>>)
             => processReceiptsFinish]_vars
    /\ [][processReceiptsFinish
             => /\ SameRecords(results, scannerResults')
                /\ NonDecreasing(scannerResults')
                /\ TiesKeepOrder(results, scannerResults')
                /\ ~scannerIsLoading']_vars

\* C15 without the order of the records: the ledger is empty during a run,
\* and only the step that ends a run fills it, with all the records admitted
NoPartialLedgerInAnyOrder ==
    /\ [](scannerIsLoading => scannerResults = <<>>)
    /\ [][(scannerResults' # scannerResults /\ scannerResults' # <<>>)
             => processReceiptsFinish]_vars
    /\ [][processReceiptsFinish
             => SameRecords(results, scannerResults') /\ ~scannerIsLoading']_vars

-----------------------------------------------------------------------------
(* The sheets of the standard workbook: C16.                               *)

RECURSIVE SumOf(_)
SumOf(numbers) ==
    IF numbers = <<>> THEN 0 ELSE numbers[1] + SumOf(Tail(numbers))

\* the places <<sheet, row>> of the workbook that hold the row of `record`
PlacesOf(record) ==
    {<<k, j>> \in (1..Len(artifact.sheets)) \X (1..Len(scannerResults)) :
        /\ j <= Len(artifact.sheets[k].rows)
        /\ artifact.sheets[k].rows[j] = StandardRow(record)}

RemittanceSheet(year) == <<"R","e","m","i","t","t","a","n","c","e"," ">> \o year

\* C16: in the standard workbook every record of the ledger is a data row
\* of exactly one sheet, the sheet "Remittance Y" of its year Y, and the
\* total of a sheet is the sum of the amounts of its rows; so the rows of
\* the sheets are as many as the records, and the totals add up to the sum
\* of the amounts of the ledger.
C16_SheetsPartitionLedger ==
    StandardWritten =>
        LET sheets == artifact.sheets
        IN  /\ \A i \in 1..Len(scannerResults) :
                  /\ Cardinality(PlacesOf(scannerResults[i])) = 1
                  /\ \A place \in PlacesOf(scannerResults[i]) :
                        sheets[place[1]].name =
                            RemittanceSheet(getYearFromPeriod(scannerResults[i].paymentPeriod))
            /\ \A k, l \in 1..Len(sheets) : sheets[k].name = sheets[l].name => k = l
            /\ \A k \in 1..Len(sheets) :
                  sheets[k].total =
                      SumOf([j \in 1..Len(sheets[k].rows) |-> sheets[k].rows[j].amount])
            /\ SumOf([k \in 1..Len(sheets) |-> Len(sheets[k].rows)]) = Len(scannerResults)
            /\ SumOf([k \in 1..Len(sheets) |-> sheets[k].total])
                  = SumOf([i \in 1..Len(scannerResults) |-> scannerResults[i].amount])

\* the workbook of three records of two years: two sheets, one of two rows
C16_Witness ==
    /\ StandardWritten
    /\ Len(scannerResults) = 3
    /\ Len(artifact.sheets) = 2
    /\ \E k \in 1..2 : Len(artifact.sheets[k].rows) = 2
    /\ \E k \in 1..2 : artifact.sheets[k].name = RemittanceSheet(<<"2","0","2","4">>)

====
